---- MODULE Spec2Model ----
(***************************************************************************)
(* Tiered entity resolver of the UK food and nutrition data platform:      *)
(* get-by-key (FSARepository.get_establishment, OFFRepository.get_product) *)
(* and search (search_establishments, search_products) over the Redis      *)
(* cache (RedisClient), the PostgreSQL table reached through a per-request *)
(* SQLAlchemy session, and the upstream clients (FSAClient, OFFClient)     *)
(* with their tenacity retry decorator.                                    *)
(*                                                                         *)
(* Time is counted in hours.  Every I/O call of a request is one step, so  *)
(* requests served by different workers interleave at their I/O calls.     *)
(***************************************************************************)
EXTENDS Integers, Sequences, FiniteSets, TLC

\* ------------------------------------------------------------------ bounds
MaxKey == 1
MaxVal == 2
MaxLimit == 1
MaxCalls == 2
NumWorkers == 2
TickHours == 25
MaxTime == 25
MaxUpserts == 2
MaxRows == 2

\* ------------------------------------------------------- program constants
StaleHours == 24
StopAfterAttempt == 3
CacheTtlEstablishment == 24
CacheTtlProduct == 24
CacheTtlSearch == 1
\* What Redis reports as the time to live of a key that never expires.
NoExpiry == -1

Registries == {"fsa", "off"}
Keys == 1..MaxKey
Vals == 1..MaxVal
Workers == 1..NumWorkers

None == [tag |-> "None"]

\* registry: which resolver instance; cache_enabled: settings.enable_caching;
\* concurrency: how many calls the deployment serves at once; fixture: the
\* raw payload that is taken through transformer, upsert and read-back on its
\* own; settings: the configured cache TTLs, in hours.  No step of a resolver
\* call changes any of these five.
VARIABLES registry, cache_enabled, concurrency, fixture, settings,
          now, store, cache, req, started

config == <<registry, cache_enabled, concurrency, fixture, settings>>
vars == <<registry, cache_enabled, concurrency, fixture, settings,
          now, store, cache, req, started>>

\* The TTL fields of Settings with their defaults.
DefaultSettings ==
  [cache_ttl_establishment |-> CacheTtlEstablishment,
   cache_ttl_product |-> CacheTtlProduct,
   cache_ttl_search |-> CacheTtlSearch]

\* Values the TTL fields, plain ints without a validator, are configured
\* with here: zero, one hour, one day.
TtlValues == {0, CacheTtlSearch, CacheTtlEstablishment}

\* ------------------------------------------------------------ upstream side
\* What one HTTP attempt can meet: a 2xx JSON body, a 2xx body whose status
\* field is not 1 (the product endpoint of Open Food Facts reports an unknown
\* barcode that way), an HTTP error status, a connection failure, a timeout,
\* a body that is not JSON.
TransportOutcomes(reg, method) ==
  {"ok", "http_error", "network", "timeout", "bad_json"}
    \cup (IF reg = "off" /\ method = "get" THEN {"status0"} ELSE {})

\* Raw payloads of the registries, 0 standing for a missing or null field:
\* name (BusinessName / product_name), rating (RatingValue / ecoscore_grade),
\* detail (RatingDate / transportation_impact, the *_100g nutrients), and the
\* nested group (scores, geocode) that is present, missing or null.
RawPayloads ==
  [name : 0..MaxVal, rating : 0..MaxVal, detail : 0..1,
   group : {"present", "missing", "null"}]

\* Payloads the registries send to resolver calls: every field filled in.
Payloads ==
  {p \in RawPayloads :
     p.name # 0 /\ p.rating # 0 /\ p.detail = 1 /\ p.group = "present"}

\* Exception class raised inside the try block of _request, before the
\* except clauses run.
RawException(outcome) ==
  CASE outcome = "http_error" -> "HTTPStatusError"
    [] outcome = "network" -> "RequestError"
    [] outcome = "timeout" -> "TimeoutException"
    [] outcome = "bad_json" -> "ValueError"
    [] OTHER -> "none"

\* httpx class hierarchy as far as the except clauses and the retry
\* predicate look at it: TimeoutException is a RequestError.
IsInstance(exc, cls) ==
  \/ exc = cls
  \/ exc = "TimeoutException" /\ cls = "RequestError"

\* _request without its `except ValueError` clause.
BodyRaisesNoValueError(outcome) ==
  LET raw == RawException(outcome) IN
  IF raw = "none" THEN "none"
  ELSE IF IsInstance(raw, "HTTPStatusError") THEN "APIError"
  ELSE IF IsInstance(raw, "RequestError") THEN "APIError"
  ELSE raw

\* The except clauses of _request: every caught class is re-raised as the
\* typed API error (FSAAPIError / OFFAPIError).
BodyRaises(outcome) ==
  LET raw == RawException(outcome) IN
  IF raw = "none" THEN "none"
  ELSE IF IsInstance(raw, "HTTPStatusError") THEN "APIError"
  ELSE IF IsInstance(raw, "RequestError") THEN "APIError"
  ELSE IF IsInstance(raw, "ValueError") THEN "APIError"
  ELSE raw

\* A retry predicate that retries on every exception.
RetryIfAny(exc) == TRUE

\* retry=retry_if_exception_type((httpx.RequestError, httpx.TimeoutException))
RetryIf(exc) ==
  IsInstance(exc, "RequestError") \/ IsInstance(exc, "TimeoutException")

\* A tenacity loop without stop=stop_after_attempt(3) that retries whatever
\* was raised.
AfterAttemptUnbounded(outcome, n) ==
  IF BodyRaises(outcome) = "none" THEN "return" ELSE "retry"

\* One pass of the tenacity loop after attempt number n ended with outcome:
\* "return", "retry", or the exception that leaves _request.
AfterAttempt(outcome, n) ==
  LET raised == BodyRaises(outcome) IN
  IF raised = "none" THEN "return"
  ELSE IF RetryIf(raised)
       THEN IF n >= StopAfterAttempt THEN "RetryError" ELSE "retry"
       ELSE raised

\* The client method around _request.  get_establishment and both search
\* methods return the body as it is; get_product inspects the status field
\* of the body and raises the typed error when it is not 1.
ClientResult(reg, outcome, method) ==
  IF reg = "off" /\ method = "get" /\ outcome = "status0" THEN "APIError"
  ELSE "return"

\* ------------------------------------------------------------- entity side
\* _transform_fsa_data reads the nested groups with
\* api_data.get("scores", {}).get(...): the default covers a missing group,
\* a null group gives None.get(...).  _transform_off_data reads flat keys.
TransformRaises(reg, payload) == reg = "fsa" /\ payload.group = "null"

\* _transform_fsa_data / _transform_off_data: the mapped fields plus the
\* transform-time timestamp.
Transform(key, payload, t) ==
  [tag |-> "Entity", key |-> key, name |-> payload.name,
   rating |-> payload.rating, detail |-> payload.detail,
   score |-> IF payload.group = "present" THEN 1 ELSE 0,
   cached_at |-> t]

\* Establishment.is_stale / ProductEco.is_stale: the value of the property.
is_stale(row, t) ==
  IF row.cached_at = -1 THEN TRUE ELSE (t - row.cached_at) * 3600 > StaleHours * 3600

\* is_stale is declared under @property, so the attribute is a bool and the
\* call db_record.is_stale() in the repositories calls that bool.
IsStaleCallable == FALSE

\* to_dict of a stored row.
to_dict(row) ==
  [tag |-> "Entity", key |-> row.key, name |-> row.name,
   rating |-> row.rating, detail |-> row.detail, score |-> row.score,
   cached_at |-> row.cached_at, updated_at |-> row.updated_at]

\* Columns the update branch of the upsert assigns.  _save_establishment
\* copies every key of the entity that is an attribute of the row, rating_date
\* and cached_at included; _save_product assigns a fixed list without
\* transportation_impact, the nutrients and cached_at.  Both assign updated_at.
UpdateColumns(reg) ==
  IF reg = "fsa" THEN {"name", "rating", "score", "detail", "cached_at", "updated_at"}
  ELSE {"name", "rating", "score", "updated_at"}

\* An update branch that leaves updated_at at the epoch.
AssignedEpoch(data, t) ==
  [name |-> data.name, rating |-> data.rating, score |-> data.score,
   detail |-> data.detail, cached_at |-> data.cached_at, updated_at |-> 0]

\* Attribute values the update branch puts on the loaded object.
Assigned(data, t) ==
  [name |-> data.name, rating |-> data.rating, score |-> data.score,
   detail |-> data.detail, cached_at |-> data.cached_at, updated_at |-> t]

\* Unit of work: only attributes whose value differs from the loaded one are
\* part of the UPDATE statement.  A fresh utcnow() and the ISO string that
\* _save_establishment puts on cached_at never equal the loaded datetime.
ChangedColumns(reg, loaded, data, t) ==
  {c \in UpdateColumns(reg) :
     c \in {"cached_at", "updated_at"} \/ Assigned(data, t)[c] # loaded[c]}

\* An update that removes the row.
ApplyUpdateDeletes(row, changed, vals, t) == None

\* The row after UPDATE ... SET <changed columns> WHERE key = k executed at
\* time t; updated_at has onupdate=utcnow when it is not among the columns.
ApplyUpdate(row, changed, vals, t) ==
  IF changed = {} THEN row
  ELSE [tag |-> "Row", key |-> row.key,
        name |-> IF "name" \in changed THEN vals.name ELSE row.name,
        rating |-> IF "rating" \in changed THEN vals.rating ELSE row.rating,
        score |-> IF "score" \in changed THEN vals.score ELSE row.score,
        detail |-> IF "detail" \in changed THEN vals.detail ELSE row.detail,
        cached_at |-> IF "cached_at" \in changed THEN vals.cached_at ELSE row.cached_at,
        updated_at |-> IF "updated_at" \in changed THEN vals.updated_at ELSE t,
        copies |-> row.copies]

\* An insert that leaves no row behind.
NewRowLost(data, tBuilt, tFlush) == None

\* The row the insert branch builds: the constructor is given neither
\* rating_date (Establishment) nor transportation_impact and the nutrients
\* (ProductEco), so the column is NULL; cached_at=datetime.utcnow() when the
\* object is constructed, updated_at from the column default at flush.
\* The primary key is the autoincrement id, so the table itself could hold
\* several rows of one natural key: copies counts them.
NewRow(data, tBuilt, tFlush) ==
  [tag |-> "Row", key |-> data.key, name |-> data.name,
   rating |-> data.rating, score |-> data.score, detail |-> 0,
   cached_at |-> tBuilt, updated_at |-> tFlush, copies |-> 1]

\* The natural-key column declared without unique=True.
UniqueKeyAbsent == FALSE

\* fhrsid / barcode = Column(..., unique=True, nullable=False, index=True).
UniqueKey == TRUE

\* ------------------------------------------------------------- search side
\* Filter sets: a free-text term (name / search_terms) and a rating filter
\* (rating_value / ecoscore_grade); 0 stands for an absent parameter.
Filters == [text : {0, 1}, rating : {0, 1}]
Limits == 1..MaxLimit

\* The WHERE clauses the store query adds for the parameters that are set.
Matches(f, row) ==
  /\ (f.text # 0 => row.name = f.text)
  /\ (f.rating # 0 => row.rating = f.rating)

\* `if not force_refresh` (FSA) against
\* `if not force_refresh and not search_terms` (OFF).
StoreTierEligible(reg, f) == reg = "fsa" \/ f.text = 0

RECURSIVE SetToSeq(_)
SetToSeq(S) ==
  IF S = {} THEN <<>>
  ELSE LET k == CHOOSE x \in S : \A y \in S : x <= y
       IN <<k>> \o SetToSeq(S \ {k})

\* query.limit(limit).all(): the matching rows, at most limit of them.
QueryResults(st, f, limit) ==
  LET hit == {k \in Keys : st[k] # None /\ Matches(f, st[k])}
  IN {SetToSeq(ks) : ks \in {x \in SUBSET hit :
          Cardinality(x) = (IF Cardinality(hit) < limit THEN Cardinality(hit) ELSE limit)}}

\* -------------------------------------------------------------- cache side
\* f"fsa:establishment:{fhrsid}" / f"off:product:{barcode}".
PointKey(reg, k) == [reg |-> reg, op |-> "point", id |-> k]

\* _get_cache_key("search", ...): registry prefix, operation and the digest
\* of the parameters serialised with sorted keys.
SearchKey(reg, f, limit) ==
  [reg |-> reg, op |-> "search", text |-> f.text, rating |-> f.rating, limit |-> limit]

CacheKeys(reg) ==
  {PointKey(reg, k) : k \in Keys} \cup {SearchKey(reg, f, l) : f \in Filters, l \in Limits}

PointTtl(reg) ==
  IF reg = "fsa" THEN settings.cache_ttl_establishment ELSE settings.cache_ttl_product

\* A ttl argument is an Optional[int]: the empty set for None, {n} for n.
TtlNone == {}
Ttl(n) == {n}

\* bool(ttl) for None and for an int.
TtlTruthy(ttl) == ttl # TtlNone /\ ttl # Ttl(0)

\* _cache_set that ignores its ttl argument.
CacheSetTtlDefault(reg, ttl) == Ttl(PointTtl(reg))

\* _cache_set: `ttl = ttl or settings.cache_ttl_establishment`
\* (cache_ttl_product in the product repository).
CacheSetTtl(reg, ttl) == IF TtlTruthy(ttl) THEN ttl ELSE Ttl(PointTtl(reg))

\* RedisClient.set: `if ttl: setex(key, ttl, serialized)`, otherwise
\* `set(key, serialized)`, which gives the key no expiry.
CacheEntry(v, ttl, t) ==
  IF TtlTruthy(ttl)
  THEN LET n == CHOOSE x \in ttl : TRUE
       IN [tag |-> "Entry", val |-> v, ttl |-> n, expires |-> t + n]
  ELSE [tag |-> "Entry", val |-> v, ttl |-> NoExpiry, expires |-> NoExpiry]

\* Redis drops an entry when its TTL has run out.
Live(entry, t) ==
  entry # None /\ (entry.expires = NoExpiry \/ t < entry.expires)

\* What can go wrong in one Redis round trip: the transport fails, the
\* stored text is not JSON, the value cannot be serialised.
GetFaults == {"none", "RedisError", "JSONDecodeError"}
SetFaults == {"none", "RedisError", "TypeError"}

\* RedisClient.get without its `except redis.RedisError` clause.
GetCatchesJsonOnly(exc) == exc = "JSONDecodeError"

\* except clauses of RedisClient.get and RedisClient.set.
GetCatches(exc) == exc \in {"RedisError", "JSONDecodeError"}
SetCatches(exc) == exc \in {"RedisError", "TypeError", "ValueError"}

\* RedisClient.get: the value json.loads gives, None for a missing key and
\* for a caught failure.
RedisGet(entry, fault, t) ==
  IF fault # "none"
  THEN IF GetCatches(fault) THEN [tag |-> "Return", val |-> None]
       ELSE [tag |-> "Raise", exc |-> fault]
  ELSE [tag |-> "Return", val |-> IF Live(entry, t) THEN entry.val ELSE None]

\* RedisClient.set: the entry the key holds afterwards and how the call ended.
RedisSet(entry, v, ttl, fault, t) ==
  IF fault # "none"
  THEN IF SetCatches(fault) THEN [status |-> "failed", exc |-> "none", entry |-> entry]
       ELSE [status |-> "raised", exc |-> fault, entry |-> entry]
  ELSE [status |-> "ok", exc |-> "none", entry |-> CacheEntry(v, ttl, t)]

\* RedisClient.flush: FLUSHDB drops every key of the database; a RedisError
\* is caught and leaves the keys as they are.
FlushFaults == {"none", "RedisError"}
FlushCatches(exc) == exc = "RedisError"

\* A flush that reports success and drops nothing.
RedisFlushKeeps(c, fault) == [status |-> "ok", exc |-> "none", cache |-> c]

RedisFlush(c, fault) ==
  IF fault = "none"
  THEN [status |-> "ok", exc |-> "none", cache |-> [k \in DOMAIN c |-> None]]
  ELSE IF FlushCatches(fault)
  THEN [status |-> "failed", exc |-> "none", cache |-> c]
  ELSE [status |-> "raised", exc |-> fault, cache |-> c]

\* A resolver without the except clause around the upstream branch.
ResolverCatchesNothing(exc) == FALSE

\* `except FSAAPIError` / `except OFFAPIError` around the upstream branch.
ResolverCatches(exc) == exc = "APIError"

\* A result list as the resolver returns and caches it.
List(items) == [tag |-> "List", items |-> items]

\* A hit test that never succeeds.
TruthyNever(v) == FALSE

\* `if cached:` / `if results:` truthiness: None and the empty list are false.
Truthy(v) == v # None /\ v # List(<<>>)

\* ----------------------------------------------------------------- requests
\* A call in flight.  cache_held, cache_read, cache_write, store_failed,
\* db_record, xport and api record what the call met at each tier; trace lists its I/O calls;
\* store_before is the table as the cache-clear call found it.
IdleReq ==
  [pc |-> "idle", op |-> "none", key |-> 0, filter |-> None, limit |-> 0,
   force |-> FALSE,
   cache_held |-> FALSE, cache_read |-> "none", cache_write |-> "none",
   store_failed |-> FALSE, db_record |-> None, xport |-> <<>>, api |-> "none", data |-> None,
   loaded |-> None, pending |-> <<>>, results |-> <<>>,
   store_before |-> None,
   trace |-> <<>>, result |-> None]

Returned(v, src) == [tag |-> "Return", val |-> v, src |-> src]
Raised(exc, at) == [tag |-> "Raise", exc |-> exc, at |-> at]

\* The cache key of the call.
KeyOf(r) ==
  IF r.op = "get" THEN PointKey(registry, r.key)
  ELSE SearchKey(registry, r.filter, r.limit)

\* The table outlives the process: it starts empty or holds a row that an
\* earlier run (tests/populate_data.py) inserted, here at hour 0.
SeedPayload == [name |-> 1, rating |-> 1, detail |-> 1, group |-> "present"]
SeedRows == {NewRow(Transform(k, SeedPayload, 0), 0, 0) : k \in Keys}

\* No finished call is waiting to be handed back to its caller.
Quiet == \A w \in Workers : req[w].pc # "done"

InFlight == {w \in Workers : req[w].pc # "idle"}

\* No payload is under examination.
NoFixture == [stage |-> "none"]

InitData ==
  /\ registry \in Registries
  /\ cache_enabled \in BOOLEAN
  /\ now = 0
  /\ store \in {s \in [Keys -> {None} \cup SeedRows] :
                  \A k \in Keys : s[k] = None \/ s[k].key = k}
  /\ cache = [c \in CacheKeys(registry) |-> None]
  /\ req = [w \in Workers |-> IdleReq]
  /\ started = 0
  /\ fixture = NoFixture

\* Several workers (settings.workers, or the populate script next to the
\* API) serve calls at once.
Init == InitData /\ concurrency = NumWorkers /\ settings = DefaultSettings

\* One uvicorn process (api/main.py), whose async routes run the blocking
\* resolver to the end: one call at a time.
SeqInit == InitData /\ concurrency = 1 /\ settings = DefaultSettings

CanStart(w) ==
  /\ Quiet
  /\ req[w].pc = "idle"
  /\ \A v \in Workers : v < w => req[v].pc # "idle"
  /\ Cardinality(InFlight) < concurrency
  /\ started < MaxCalls

\* A get-by-key call whose force_refresh does not skip the cache check.
StartAtCache(w) ==
  /\ CanStart(w)
  /\ \E k \in Keys, f \in BOOLEAN :
       req' = [req EXCEPT ![w] =
                 [IdleReq EXCEPT !.pc = "cache_check",
                                 !.op = "get", !.key = k, !.force = f]]
  /\ started' = started + 1
  /\ UNCHANGED <<config, now, store, cache>>

\* A worker takes a get-by-key call; the routes construct the repository
\* without a cache_enabled argument, so it comes from the settings.
Start(w) ==
  /\ CanStart(w)
  /\ \E k \in Keys, f \in BOOLEAN :
       req' = [req EXCEPT ![w] =
                 [IdleReq EXCEPT !.pc = IF f THEN "upstream" ELSE "cache_check",
                                 !.op = "get", !.key = k, !.force = f]]
  /\ started' = started + 1
  /\ UNCHANGED <<config, now, store, cache>>

\* A worker takes a search call.
StartSearch(w) ==
  /\ CanStart(w)
  /\ \E flt \in Filters, l \in Limits, f \in BOOLEAN :
       req' = [req EXCEPT ![w] =
                 [IdleReq EXCEPT !.pc = IF f THEN "s_upstream" ELSE "s_cache_check",
                                 !.op = "search", !.filter = flt, !.limit = l,
                                 !.force = f]]
  /\ started' = started + 1
  /\ UNCHANGED <<config, now, store, cache>>

\* A worker takes a nearby search (FSARepository.get_nearby_establishments):
\* no cache and no store read, straight to the registry.
StartNearby(w) ==
  /\ CanStart(w)
  /\ registry = "fsa"
  /\ \E l \in Limits :
       req' = [req EXCEPT ![w] =
                 [IdleReq EXCEPT !.pc = "s_upstream", !.op = "nearby", !.limit = l]]
  /\ started' = started + 1
  /\ UNCHANGED <<config, now, store, cache>>

\* A worker takes POST /cache/clear.
StartFlush(w) ==
  /\ CanStart(w)
  /\ req' = [req EXCEPT ![w] =
                [IdleReq EXCEPT !.pc = "flush", !.op = "flush", !.store_before = store]]
  /\ started' = started + 1
  /\ UNCHANGED <<config, now, store, cache>>

\* clear_cache: redis.flush(); the route answers success whatever flush
\* returned.
FlushAll(w) ==
  /\ Quiet
  /\ req[w].pc = "flush"
  /\ \E fault \in FlushFaults :
       LET out == RedisFlush(cache, fault) IN
       /\ cache' = out.cache
       /\ req' = [req EXCEPT ![w].pc = "done",
                              ![w].cache_write = out.status,
                              ![w].trace = Append(req[w].trace, "cache_flush"),
                              ![w].result = IF out.status = "raised"
                                            THEN Raised(out.exc, "flush")
                                            ELSE Returned([tag |-> "Success"], "admin")]
  /\ UNCHANGED <<config, now, store, started>>

\* The cache read without the cache_enabled test of _cache_get.
CacheReadAlways(w, missTo) ==
  LET r == req[w]
      held == Live(cache[KeyOf(r)], now)
  IN
  \E fault \in GetFaults :
    LET got == RedisGet(cache[KeyOf(r)], fault, now)
        tr == Append(r.trace, "cache_get")
    IN IF got.tag = "Raise"
       THEN req' = [req EXCEPT ![w].pc = "done", ![w].cache_held = held,
                               ![w].cache_read = "failed", ![w].trace = tr,
                               ![w].result = Raised(got.exc, "cache_check")]
       ELSE IF Truthy(got.val)
       THEN req' = [req EXCEPT ![w].pc = "done", ![w].cache_held = held,
                               ![w].cache_read = "ok", ![w].trace = tr,
                               ![w].result = Returned(got.val, "cache")]
       ELSE req' = [req EXCEPT ![w].pc = missTo, ![w].cache_held = held,
                               ![w].cache_read = IF fault = "none" THEN "ok"
                                                 ELSE "failed",
                               ![w].trace = tr]

\* The cache read at the head of get-by-key and of search:
\* _cache_get and RedisClient.get, then `if cached: return cached`.
\* missTo is where the call goes on a miss.
CacheRead(w, missTo) ==
  LET r == req[w]
      held == Live(cache[KeyOf(r)], now)
  IN
  IF ~cache_enabled
  THEN req' = [req EXCEPT ![w].pc = missTo, ![w].cache_held = held,
                          ![w].cache_read = "skipped"]
  ELSE \E fault \in GetFaults :
         LET got == RedisGet(cache[KeyOf(r)], fault, now)
             tr == Append(r.trace, "cache_get")
         IN IF got.tag = "Raise"
            THEN req' = [req EXCEPT ![w].pc = "done", ![w].cache_held = held,
                                    ![w].cache_read = "failed", ![w].trace = tr,
                                    ![w].result = Raised(got.exc, "cache_check")]
            ELSE IF Truthy(got.val)
            THEN req' = [req EXCEPT ![w].pc = "done", ![w].cache_held = held,
                                    ![w].cache_read = "ok", ![w].trace = tr,
                                    ![w].result = Returned(got.val, "cache")]
            ELSE req' = [req EXCEPT ![w].pc = missTo, ![w].cache_held = held,
                                    ![w].cache_read = IF fault = "none" THEN "ok"
                                                      ELSE "failed",
                                    ![w].trace = tr]

\* _cache_set and RedisClient.set of value v under the call's key, then
\* `return v`.
CacheWriteAndReturn(w, v, ttl, src, tr) ==
  IF cache_enabled
  THEN \E fault \in SetFaults :
         LET put == RedisSet(cache[KeyOf(req[w])], v, CacheSetTtl(registry, ttl),
                             fault, now)
         IN /\ req' = [req EXCEPT ![w].pc = "done",
                                  ![w].cache_write = put.status,
                                  ![w].trace = Append(tr, "cache_set"),
                                  ![w].result = IF put.status = "raised"
                                                THEN Raised(put.exc, "cache_set")
                                                ELSE Returned(v, src)]
            /\ cache' = [cache EXCEPT ![KeyOf(req[w])] = put.entry]
  ELSE /\ req' = [req EXCEPT ![w].pc = "done", ![w].cache_write = "skipped",
                             ![w].trace = tr,
                             ![w].result = Returned(v, src)]
       /\ UNCHANGED cache

\* A store tier wrapped in `except Exception` that goes on to upstream.
StoreReadCatchesAll(exc) == TRUE

\* The store queries of get-by-key and search stand before the try block of
\* the method: no except clause covers them.
StoreReadCatches(exc) == FALSE

\* CACHE_CHECK of get-by-key.
CacheCheck(w) ==
  /\ Quiet
  /\ req[w].pc = "cache_check"
  /\ CacheRead(w, "store_check")
  /\ UNCHANGED <<config, now, store, cache, started>>

\* STORE_CHECK of get-by-key: the point query, then
\* `if db_record and not db_record.is_stale():` with its cache population.
StoreCheck(w) ==
  LET r == req[w]
      db_record == store[r.key]
      tr == Append(r.trace, "store_read")
  IN
  /\ Quiet
  /\ r.pc = "store_check"
  /\ \E dbFails \in BOOLEAN :
       IF dbFails
       THEN /\ req' = IF StoreReadCatches("StoreError")
                      THEN [req EXCEPT ![w].pc = "upstream", ![w].trace = tr,
                                       ![w].store_failed = TRUE]
                      ELSE [req EXCEPT ![w].pc = "done", ![w].trace = tr,
                                       ![w].store_failed = TRUE,
                                       ![w].result = Raised("StoreError", "store_check")]
            /\ UNCHANGED cache
       ELSE IF db_record = None
       THEN /\ req' = [req EXCEPT ![w].pc = "upstream", ![w].trace = tr]
            /\ UNCHANGED cache
       ELSE IF ~IsStaleCallable
       THEN /\ req' = [req EXCEPT ![w].pc = "done", ![w].trace = tr,
                                  ![w].db_record = db_record,
                                  ![w].result = Raised("TypeError", "store_check")]
            /\ UNCHANGED cache
       ELSE IF ~is_stale(db_record, now)
       THEN CacheWriteAndReturn(w, to_dict(db_record), TtlNone, "store", tr)
       ELSE /\ req' = [req EXCEPT ![w].pc = "upstream", ![w].trace = tr,
                                  ![w].db_record = db_record]
            /\ UNCHANGED cache
  /\ UNCHANGED <<config, now, store, started>>

\* What one HTTP attempt of _request under the retry decorator leads to:
\* the transport outcomes so far and "retry", "return" or the exception
\* that leaves the client method.
ClientStep(r, outcome, method) ==
  LET xp == Append(r.xport, outcome)
      after == AfterAttempt(outcome, Len(xp))
  IN [xport |-> xp,
      ends |-> IF after = "return" THEN ClientResult(registry, outcome, method)
               ELSE after]

\* An upstream step that joins a fetch already issued for the same key by
\* another call instead of issuing its own.
UpstreamAttemptCoalesced(w) ==
  LET r == req[w]
      leaders == {v \in Workers \ {w} :
                    /\ req[v].op = "get" /\ req[v].key = r.key
                    /\ req[v].data # None}
  IN
  /\ Quiet
  /\ r.pc = "upstream"
  /\ IF leaders # {}
     THEN \E v \in leaders :
            req' = [req EXCEPT ![w].pc = "done", ![w].data = req[v].data,
                               ![w].result = Returned(req[v].data, "upstream")]
     ELSE \E payload \in Payloads :
            req' = [req EXCEPT ![w].pc = "save_read", ![w].xport = <<"ok">>,
                               ![w].trace = Append(r.trace, "upstream"),
                               ![w].api = "return",
                               ![w].data = Transform(r.key, payload, now)]
  /\ UNCHANGED <<config, now, store, cache, started>>

\* UPSTREAM_FETCH of get-by-key: one attempt of the client call, then the
\* transform or the resolver's except clause.
UpstreamAttempt(w) ==
  LET r == req[w] IN
  /\ Quiet
  /\ r.pc = "upstream"
  /\ \E outcome \in TransportOutcomes(registry, "get"), payload \in Payloads :
       LET c == ClientStep(r, outcome, "get")
           tr == Append(r.trace, "upstream")
       IN IF c.ends = "retry"
          THEN req' = [req EXCEPT ![w].xport = c.xport, ![w].trace = tr]
          ELSE IF c.ends = "return"
          THEN req' = [req EXCEPT ![w].pc = "save_read", ![w].xport = c.xport,
                                  ![w].trace = tr, ![w].api = "return",
                                  ![w].data = Transform(r.key, payload, now)]
          ELSE IF ResolverCatches(c.ends)
          THEN req' = [req EXCEPT ![w].pc = "done", ![w].xport = c.xport,
                                  ![w].trace = tr, ![w].api = c.ends,
                                  ![w].result = Returned(None, "upstream")]
          ELSE req' = [req EXCEPT ![w].pc = "done", ![w].xport = c.xport,
                                  ![w].trace = tr, ![w].api = c.ends,
                                  ![w].result = Raised(c.ends, "upstream")]
  /\ UNCHANGED <<config, now, store, cache, started>>

\* _save_establishment / _save_product, first half: the "check if exists"
\* query and the attribute assignments or the construction of the new object.
\* A row this session already loaded keeps the attribute values of that load.
SaveRead(w) ==
  LET r == req[w]
      k == r.data.key
      tr == Append(r.trace, "upsert_read")
  IN
  /\ Quiet
  /\ r.pc = "save_read"
  /\ \E dbFails \in BOOLEAN :
       IF dbFails
       THEN req' = [req EXCEPT ![w].pc = "done", ![w].trace = tr,
                               ![w].result = Raised("StoreError", "save")]
       ELSE req' = [req EXCEPT ![w].pc = "save_commit", ![w].trace = tr,
                               ![w].loaded = IF r.db_record # None /\ store[k] # None
                                             THEN r.db_record ELSE store[k]]
  /\ UNCHANGED <<config, now, store, cache, started>>

\* Where the call goes after a committed upsert: get-by-key to its cache
\* population; search and nearby search append the entity and take the next
\* upstream result; nearby search returns its list without caching it.
AfterSave(r, tr) ==
  IF r.op = "get" THEN [r EXCEPT !.pc = "cache_set", !.trace = tr]
  ELSE IF r.pending = <<>> /\ r.op = "nearby"
  THEN [r EXCEPT !.pc = "done", !.trace = tr,
                 !.results = Append(r.results, r.data),
                 !.result = Returned(List(Append(r.results, r.data)), "upstream")]
  ELSE IF r.pending = <<>>
  THEN [r EXCEPT !.pc = "s_cache_set", !.trace = tr,
                 !.results = Append(r.results, r.data)]
  ELSE [r EXCEPT !.pc = "save_read", !.trace = tr,
                 !.results = Append(r.results, r.data),
                 !.data = Head(r.pending), !.pending = Tail(r.pending),
                 !.loaded = None]

\* _save_establishment / _save_product, second half: db.commit() flushes the
\* UPDATE or the INSERT; the unique index on the natural key rejects a second
\* INSERT.  No except clause surrounds the call.
SaveCommit(w) ==
  LET r == req[w]
      k == r.data.key
      tr == Append(r.trace, "upsert_commit")
  IN
  /\ Quiet
  /\ r.pc = "save_commit"
  /\ \E dbFails \in BOOLEAN :
       IF dbFails
       THEN /\ req' = [req EXCEPT ![w].pc = "done", ![w].trace = tr,
                                  ![w].result = Raised("StoreError", "save")]
            /\ UNCHANGED store
       ELSE IF r.loaded # None
       THEN /\ store' = [store EXCEPT ![k] =
                           ApplyUpdate(store[k],
                                       ChangedColumns(registry, r.loaded, r.data, now),
                                       Assigned(r.data, now), now)]
            /\ req' = [req EXCEPT ![w] = AfterSave(r, tr)]
       ELSE IF store[k] # None /\ UniqueKey
       THEN /\ req' = [req EXCEPT ![w].pc = "done", ![w].trace = tr,
                                  ![w].result = Raised("IntegrityError", "save")]
            /\ UNCHANGED store
       ELSE IF store[k] # None
       THEN /\ store' = [store EXCEPT ![k].copies = @ + 1]
            /\ req' = [req EXCEPT ![w] = AfterSave(r, tr)]
       ELSE /\ store' = [store EXCEPT ![k] = NewRow(r.data, now, now)]
            /\ req' = [req EXCEPT ![w] = AfterSave(r, tr)]
  /\ UNCHANGED <<config, now, cache, started>>

\* CACHE_POPULATE of get-by-key: _cache_set with the default TTL, then
\* return the entity.
CachePopulate(w) ==
  LET r == req[w] IN
  /\ Quiet
  /\ r.pc = "cache_set"
  /\ CacheWriteAndReturn(w, r.data, TtlNone, "upstream", r.trace)
  /\ UNCHANGED <<config, now, store, started>>

\* Cache check of search.  The store tier follows unless the filter set
\* makes the resolver skip it.
SearchCacheCheck(w) ==
  /\ Quiet
  /\ req[w].pc = "s_cache_check"
  /\ CacheRead(w, IF StoreTierEligible(registry, req[w].filter)
                  THEN "s_store_check" ELSE "s_upstream")
  /\ UNCHANGED <<config, now, store, cache, started>>

\* Store tier of search: the filtered query; a non-empty result is cached
\* with the search TTL and returned, without a staleness check.
SearchStoreCheck(w) ==
  LET r == req[w]
      tr == Append(r.trace, "store_read")
  IN
  /\ Quiet
  /\ r.pc = "s_store_check"
  /\ \E dbFails \in BOOLEAN, rows \in QueryResults(store, r.filter, r.limit) :
       IF dbFails
       THEN /\ req' = IF StoreReadCatches("StoreError")
                      THEN [req EXCEPT ![w].pc = "s_upstream", ![w].trace = tr,
                                       ![w].store_failed = TRUE]
                      ELSE [req EXCEPT ![w].pc = "done", ![w].trace = tr,
                                       ![w].store_failed = TRUE,
                                       ![w].result = Raised("StoreError", "store_check")]
            /\ UNCHANGED cache
       ELSE IF rows # <<>>
       THEN CacheWriteAndReturn(
              w, List([i \in 1..Len(rows) |-> to_dict(store[rows[i]])]),
              Ttl(settings.cache_ttl_search), "store", tr)
       ELSE /\ req' = [req EXCEPT ![w].pc = "s_upstream", ![w].trace = tr]
            /\ UNCHANGED cache
  /\ UNCHANGED <<config, now, store, started>>

\* What the registry can return to a search: entities of distinct keys.
UpstreamLists ==
  {<<>>} \cup
  UNION {{[i \in 1..Len(SetToSeq(ks)) |-> [key |-> SetToSeq(ks)[i], payload |-> pl[SetToSeq(ks)[i]]]] :
            pl \in [ks -> Payloads]} : ks \in (SUBSET Keys) \ {{}}}

\* An upstream step of search that stores the empty list under the search
\* key when the upstream call has failed.
SearchUpstreamCachesFailure(w) ==
  LET r == req[w] IN
  /\ Quiet
  /\ r.pc = "s_upstream"
  /\ req' = [req EXCEPT ![w].pc = "done", ![w].xport = <<"network">>,
                         ![w].trace = Append(r.trace, "upstream"),
                         ![w].api = "APIError",
                         ![w].result = Returned(List(<<>>), "upstream")]
  /\ cache' = IF r.op = "search"
              THEN [cache EXCEPT ![KeyOf(r)] =
                      CacheEntry(List(<<>>), Ttl(settings.cache_ttl_search), now)]
              ELSE cache
  /\ UNCHANGED <<config, now, store, started>>

\* Upstream tier of search and the whole of get_nearby_establishments: one
\* attempt of the client call; the results are transformed and saved one by
\* one, an API error gives the empty list.
SearchUpstream(w) ==
  LET r == req[w] IN
  /\ Quiet
  /\ r.pc = "s_upstream"
  /\ \E outcome \in TransportOutcomes(registry, "search"), found \in UpstreamLists :
       LET c == ClientStep(r, outcome, "search")
           tr == Append(r.trace, "upstream")
           items == [i \in 1..Len(found) |->
                       Transform(found[i].key, found[i].payload, now)]
       IN IF c.ends = "retry"
          THEN req' = [req EXCEPT ![w].xport = c.xport, ![w].trace = tr]
          ELSE IF c.ends = "return"
          THEN IF items = <<>> /\ r.op = "nearby"
               THEN req' = [req EXCEPT ![w].pc = "done", ![w].xport = c.xport,
                                       ![w].trace = tr, ![w].api = "return",
                                       ![w].result = Returned(List(<<>>), "upstream")]
               ELSE IF items = <<>>
               THEN req' = [req EXCEPT ![w].pc = "s_cache_set", ![w].xport = c.xport,
                                       ![w].trace = tr, ![w].api = "return"]
               ELSE req' = [req EXCEPT ![w].pc = "save_read", ![w].xport = c.xport,
                                       ![w].trace = tr, ![w].api = "return",
                                       ![w].data = Head(items),
                                       ![w].pending = Tail(items)]
          ELSE IF ResolverCatches(c.ends)
          THEN req' = [req EXCEPT ![w].pc = "done", ![w].xport = c.xport,
                                  ![w].trace = tr, ![w].api = c.ends,
                                  ![w].result = Returned(List(<<>>), "upstream")]
          ELSE req' = [req EXCEPT ![w].pc = "done", ![w].xport = c.xport,
                                  ![w].trace = tr, ![w].api = c.ends,
                                  ![w].result = Raised(c.ends, "upstream")]
  /\ UNCHANGED <<config, now, store, cache, started>>

\* Cache population of search: the result list with the search TTL.
SearchCachePopulate(w) ==
  LET r == req[w] IN
  /\ Quiet
  /\ r.pc = "s_cache_set"
  /\ CacheWriteAndReturn(w, List(r.results), Ttl(settings.cache_ttl_search), "upstream", r.trace)
  /\ UNCHANGED <<config, now, store, started>>

\* The handler returns: the result goes to the caller and the worker is free.
\* Nothing else reads a finished call, so the return is taken first.
Return(w) ==
  /\ req[w].pc = "done"
  /\ req' = [req EXCEPT ![w] = IdleReq]
  /\ UNCHANGED <<config, now, store, cache, started>>

\* A day and an hour pass.  A call lasts seconds (10 s timeout, 3 attempts),
\* so the clock moves between calls.
Tick ==
  /\ InFlight = {}
  /\ now < MaxTime
  /\ now' = now + TickHours
  /\ UNCHANGED <<config, store, cache, req, started>>

\* get-by-key calls and cache clears.
Next ==
  \/ \E w \in Workers : Start(w)
  \/ \E w \in Workers : CacheCheck(w)
  \/ \E w \in Workers : StoreCheck(w)
  \/ \E w \in Workers : UpstreamAttempt(w)
  \/ \E w \in Workers : SaveRead(w)
  \/ \E w \in Workers : SaveCommit(w)
  \/ \E w \in Workers : CachePopulate(w)
  \/ \E w \in Workers : StartFlush(w)
  \/ \E w \in Workers : FlushAll(w)
  \/ \E w \in Workers : Return(w)
  \/ Tick

\* The next I/O call of the call worker w is serving returns or fails.
CallStep(w) ==
  \/ CacheCheck(w) \/ StoreCheck(w) \/ UpstreamAttempt(w)
  \/ SaveRead(w) \/ SaveCommit(w) \/ CachePopulate(w) \/ FlushAll(w)

\* get-by-key, search and nearby search calls, cache clears.
FullNext ==
  \/ Next
  \/ \E w \in Workers : StartSearch(w)
  \/ \E w \in Workers : StartNearby(w)
  \/ \E w \in Workers : SearchCacheCheck(w)
  \/ \E w \in Workers : SearchStoreCheck(w)
  \/ \E w \in Workers : SearchUpstream(w)
  \/ \E w \in Workers : SearchCachePopulate(w)

\* Concurrent get-by-key calls.
Spec == Init /\ [][Next]_vars

\* Concurrent get-by-key calls whose I/O calls all return or fail, and whose
\* answers are all handed back.
LiveSpec ==
  /\ Init /\ [][Next]_vars
  /\ \A w \in Workers : WF_vars(CallStep(w)) /\ WF_vars(Return(w))

\* Calls of every kind, one at a time.
SeqSpec == SeqInit /\ [][FullNext]_vars

\* Calls of every kind served by several workers at once.
ConcSpec == Init /\ [][FullNext]_vars

\* ------------------------------------------------- the entity pipeline alone
\* One raw payload taken through the transformer, the upsert (run to its end
\* by one session, as often as MaxUpserts) and the store branch of get-by-key.
NewFixture(k, p) ==
  [stage |-> "raw", key |-> k, payload |-> p, entity |-> None,
   upserts |-> 0, first |-> None, readback |-> None]

UnitInit ==
  /\ registry \in Registries
  /\ cache_enabled = FALSE
  /\ concurrency = 1
  /\ now = 0
  /\ store \in {st \in [Keys -> {None} \cup SeedRows] :
                  \A k \in Keys : st[k] = None \/ st[k].key = k}
  /\ cache = [c \in CacheKeys(registry) |-> None]
  /\ req = [w \in Workers |-> IdleReq]
  /\ started = 0
  /\ \E k \in Keys, p \in RawPayloads : fixture = NewFixture(k, p)
  /\ settings = DefaultSettings

\* business_name is nullable=False on Establishment; product_name is nullable.
NotNullViolated(reg, data) == reg = "fsa" /\ data.name = 0

\* _save_establishment / _save_product run by one session without
\* interruption: the row of the key afterwards.
Upserted(reg, row, data, t) ==
  IF row = None THEN NewRow(data, t, t)
  ELSE ApplyUpdate(row, ChangedColumns(reg, row, data, t), Assigned(data, t), t)

\* The store branch of get-by-key for a row that was found:
\* `if db_record and not db_record.is_stale(): return db_record.to_dict()`;
\* None when the call goes on to upstream.
StoreAnswer(row, t) ==
  IF ~IsStaleCallable THEN Raised("TypeError", "store_check")
  ELSE IF ~is_stale(row, t) THEN Returned(to_dict(row), "store")
  ELSE None

\* The transformer applied to the raw payload.
UnitTransform ==
  /\ fixture.stage = "raw"
  /\ fixture' = IF TransformRaises(registry, fixture.payload)
                 THEN [fixture EXCEPT !.stage = "transform_raised"]
                 ELSE [fixture EXCEPT !.stage = "entity",
                                      !.entity = Transform(fixture.key, fixture.payload, now)]
  /\ UNCHANGED <<registry, cache_enabled, concurrency, settings, now, store, cache, req, started>>

\* One upsert of the transformed entity.
UnitUpsert ==
  LET k == fixture.key
      row == Upserted(registry, store[k], fixture.entity, now)
  IN
  /\ fixture.stage = "entity"
  /\ fixture.upserts < MaxUpserts
  /\ IF NotNullViolated(registry, fixture.entity)
     THEN /\ fixture' = [fixture EXCEPT !.stage = "upsert_raised"]
          /\ UNCHANGED store
     ELSE /\ store' = [store EXCEPT ![k] = row]
          /\ fixture' = [fixture EXCEPT !.upserts = @ + 1,
                                        !.first = IF fixture.upserts = 0 THEN row ELSE @]
  /\ UNCHANGED <<registry, cache_enabled, concurrency, settings, now, cache, req, started>>

\* get-by-key for the key of the entity, cache empty, row found and fresh.
UnitReadBack ==
  LET row == store[fixture.key] IN
  /\ fixture.stage = "entity"
  /\ fixture.upserts >= 1
  /\ ~is_stale(row, now)
  /\ fixture' = [fixture EXCEPT !.stage = "read", !.readback = StoreAnswer(row, now)]
  /\ UNCHANGED <<registry, cache_enabled, concurrency, settings, now, store, cache, req, started>>

UnitNext ==
  \/ UnitTransform
  \/ UnitUpsert
  \/ UnitReadBack
  \/ Tick

\* Transformer, upsert and read-back of one payload.
UnitSpec == UnitInit /\ [][UnitNext]_vars

\* ------------------------------------------------------ cache key derivation
\* Names of the keyword arguments of a search key, in the order sort_keys
\* puts them.
ParamNames == <<"limit", "rating", "text">>

ValueOf(f, limit, name) ==
  CASE name = "limit" -> limit
    [] name = "rating" -> f.rating
    [] name = "text" -> f.text

\* **kwargs as the caller supplies them: name/value pairs in any order, an
\* absent parameter with the value 0 (None).
KwargsForms ==
  LET n == Len(ParamNames)
      perms == {q \in [1..n -> 1..n] : \A i, j \in 1..n : q[i] = q[j] => i = j}
  IN {[i \in 1..n |-> <<ParamNames[q[i]], ValueOf(f, l, ParamNames[q[i]])>>] :
        q \in perms, f \in Filters, l \in Limits}

\* The dict the pairs make up.
Mapping(kwargs) == {kwargs[i] : i \in 1..Len(kwargs)}

\* json.dumps(kwargs) without sort_keys: the items in insertion order.
JsonDumpsUnsorted(kwargs) == kwargs

\* json.dumps(kwargs, sort_keys=True): the items in the order of their names.
JsonDumps(kwargs) ==
  [i \in 1..Len(kwargs) |-> CHOOSE item \in Mapping(kwargs) : item[1] = ParamNames[i]]

\* hashlib.md5(text).hexdigest(), taken as free of collisions.
Md5(text) == [md5 |-> text]

\* _get_cache_key: f"fsa:{prefix}:{params_hash}" / f"off:{prefix}:{params_hash}".
get_cache_key(reg, prefix, kwargs) == <<reg, prefix, Md5(JsonDumps(kwargs))>>

\* f"fsa:establishment:{fhrsid}" / f"off:product:{barcode}" as text.
PointKeyText(reg, k) ==
  <<reg, IF reg = "fsa" THEN "establishment" ELSE "product", [id |-> k]>>

\* Two search calls and one get-by-key call whose cache keys are derived.
KeyFixture(a, b, c) ==
  [stage |-> "args", first |-> a, second |-> b, point |-> c,
   first_key |-> None, second_key |-> None, point_key |-> None]

KeyInit ==
  /\ registry = "fsa"
  /\ cache_enabled = TRUE
  /\ concurrency = 1
  /\ settings = DefaultSettings
  /\ now = 0
  /\ store = [k \in Keys |-> None]
  /\ cache = [c \in CacheKeys(registry) |-> None]
  /\ req = [w \in Workers |-> IdleReq]
  /\ started = 0
  /\ \E a, b \in [reg : Registries, kwargs : KwargsForms],
        c \in [reg : Registries, key : Keys] :
       fixture = KeyFixture(a, b, c)

\* The cache_key assignment of the two search calls.
KeySearch ==
  /\ fixture.stage = "args"
  /\ fixture' = [fixture EXCEPT
                   !.stage = "searched",
                   !.first_key = get_cache_key(fixture.first.reg, "search",
                                               fixture.first.kwargs),
                   !.second_key = get_cache_key(fixture.second.reg, "search",
                                                fixture.second.kwargs)]
  /\ UNCHANGED <<registry, cache_enabled, concurrency, settings,
                 now, store, cache, req, started>>

\* The cache_key assignment of the get-by-key call.
KeyPoint ==
  /\ fixture.stage = "searched"
  /\ fixture' = [fixture EXCEPT
                   !.stage = "keyed",
                   !.point_key = PointKeyText(fixture.point.reg, fixture.point.key)]
  /\ UNCHANGED <<registry, cache_enabled, concurrency, settings,
                 now, store, cache, req, started>>

KeyNext == KeySearch \/ KeyPoint

KeySpec == KeyInit /\ [][KeyNext]_vars

\* ---------------------------------------------------------------- statistics
\* Rows as the aggregation sees them: whether the row matches the postcode
\* prefix or the category, its rating (0 for a NULL or a value outside the
\* listed ones, such as 'AwaitingInspection'), and its nullable score
\* column: the empty set for NULL, {n} for n.
StatRows == [match : BOOLEAN, rating : 0..MaxVal, score : {{}} \cup {{n} : n \in 0..MaxVal}]

\* Table contents of up to MaxRows rows.
StatTables == UNION {[1..n -> StatRows] : n \in 0..MaxRows}

\* query.filter(rating == r).count() over the matching rows.
CountRated(table, r) ==
  Cardinality({i \in 1..Len(table) : table[i].match /\ table[i].rating = r})

RECURSIVE SumScores(_)
SumScores(table) ==
  IF table = <<>> THEN 0
  ELSE (IF Head(table).match /\ Head(table).score # {}
        THEN CHOOSE n \in Head(table).score : TRUE ELSE 0)
       + SumScores(Tail(table))

\* func.avg over the matching rows whose score is not NULL: NULL (None)
\* without such a row, otherwise the quotient, kept as sum over count.
SqlAvg(table) ==
  LET n == Cardinality({i \in 1..Len(table) :
                          table[i].match /\ table[i].score # {}})
  IN IF n = 0 THEN None ELSE [tag |-> "Avg", sum |-> SumScores(table), n |-> n]

\* bool(avg) for None and for a Decimal.
AvgTruthy(avg) == avg # None /\ avg.sum # 0

\* get_statistics_by_postcode / get_category_statistics.
Statistics(table) ==
  LET total == Cardinality({i \in 1..Len(table) : table[i].match})
      Rated(r) == CountRated(table, r)
      avg == SqlAvg(table)
  IN IF total = 0
     THEN [total |-> 0, distribution |-> [r \in {} |-> 0], average |-> None]
     ELSE [total |-> total,
           distribution |-> [r \in {x \in 1..MaxVal : Rated(x) > 0} |-> Rated(r)],
           average |-> IF AvgTruthy(avg) THEN avg ELSE None]

StatFixture(table) == [stage |-> "table", table |-> table, report |-> None]

StatInit ==
  /\ registry \in Registries
  /\ cache_enabled = TRUE
  /\ concurrency = 1
  /\ settings = DefaultSettings
  /\ now = 0
  /\ store = [k \in Keys |-> None]
  /\ cache = [c \in CacheKeys(registry) |-> None]
  /\ req = [w \in Workers |-> IdleReq]
  /\ started = 0
  /\ \E table \in StatTables : fixture = StatFixture(table)

\* One call of the statistics method: queries on the session, nothing else.
StatAggregate ==
  /\ fixture.stage = "table"
  /\ fixture' = [fixture EXCEPT !.stage = "reported",
                                !.report = Statistics(fixture.table)]
  /\ UNCHANGED <<registry, cache_enabled, concurrency, settings,
                 now, store, cache, req, started>>

StatNext == StatAggregate

StatSpec == StatInit /\ [][StatNext]_vars

\* -------------------------------------------------------- configured TTLs
\* One process with caching on, started with any of the TTL values in its
\* environment; the TTL field of the other registry keeps its default.
TtlInit ==
  /\ InitData
  /\ cache_enabled
  /\ concurrency = 1
  /\ settings \in {s \in [cache_ttl_establishment : TtlValues,
                          cache_ttl_product : TtlValues,
                          cache_ttl_search : TtlValues] :
                    IF registry = "fsa"
                    THEN s.cache_ttl_product = CacheTtlProduct
                    ELSE s.cache_ttl_establishment = CacheTtlEstablishment}

TtlSpec == TtlInit /\ [][FullNext]_vars

\* ------------------------------------------------------------------ claims
Done(w) == req[w].pc = "done"
DoneGet(w) == Done(w) /\ req[w].op = "get"
HasCall(w, name) == \E i \in 1..Len(req[w].trace) : req[w].trace[i] = name
NetworkFailure(o) == o \in {"network", "timeout"}
WellFormedError(o) == o \in {"http_error", "status0"}
ClientEnded(w) == req[w].xport # <<>> /\ req[w].pc \notin {"upstream", "s_upstream"}
DomainFields(e) == <<e.name, e.rating>>
LastOutcome(w) == req[w].xport[Len(req[w].xport)]
MappedFields(e) == <<e.key, e.name, e.rating, e.score, e.detail>>

\* The get-by-key routes around the resolver call: `if not result` raises
\* HTTPException(404), which `except HTTPException: raise` passes on; any
\* other exception becomes HTTPException(500); a result is sent with 200.
RouteStatus(res) ==
  IF res.tag = "Raise" THEN 500
  ELSE IF ~Truthy(res.val) THEN 404
  ELSE 200

\* C1 as stated: whenever forceRefresh is false and the cache holds a live
\* entry for the point-lookup key, get-by-key returns that entry's value and
\* makes no store read, upstream call, upsert or cache write.
C1_Original ==
  \A w \in Workers :
    (DoneGet(w) /\ ~req[w].force /\ req[w].cache_held)
      => /\ req[w].result = Returned(cache[KeyOf(req[w])].val, "cache")
         /\ req[w].trace = <<"cache_get">>

\* C1 amended: when forceRefresh is false, caching is enabled and the cache
\* read succeeds and finds a live entry for the point-lookup key, get-by-key
\* returns that entry's value and its only I/O call is that cache read.
C1_CacheBeforeStore ==
  \A w \in Workers :
    (DoneGet(w) /\ ~req[w].force /\ req[w].cache_held /\ req[w].cache_read = "ok")
      => /\ req[w].result = Returned(cache[KeyOf(req[w])].val, "cache")
         /\ req[w].trace = <<"cache_get">>

C1_Witness ==
  \E w \in Workers :
    /\ DoneGet(w) /\ ~req[w].force /\ req[w].cache_held /\ req[w].cache_read = "ok"
    /\ req[w].result.tag = "Return" /\ req[w].result.src = "cache"
    /\ req[w].result.val.tag = "Entity"

\* C2: a get-by-key that missed the cache and found a stale row in the store
\* does not answer from the store and calls upstream before it answers.
C2_StalenessGate ==
  \A w \in Workers :
    (DoneGet(w) /\ req[w].db_record # None /\ is_stale(req[w].db_record, now))
      => /\ ~(req[w].result.tag = "Return" /\ req[w].result.src = "store")
         /\ HasCall(w, "upstream")

\* C3: a get-by-key that missed the cache and found a fresh row in the store
\* returns that row and makes no upstream call.
C3_FreshStoreServed ==
  \A w \in Workers :
    (DoneGet(w) /\ req[w].db_record # None /\ ~is_stale(req[w].db_record, now))
      => /\ req[w].result = Returned(to_dict(req[w].db_record), "store")
         /\ ~HasCall(w, "upstream")

\* C4: when the upstream fetch of get-by-key ends in a registry error
\* response, a not-found body, a network failure or an undecodable body,
\* get-by-key returns None and no exception leaves it.
C4_UpstreamFailureIsAbsent ==
  \A w \in Workers :
    (DoneGet(w) /\ req[w].xport # <<>>
       /\ (NetworkFailure(LastOutcome(w)) \/ WellFormedError(LastOutcome(w))
           \/ LastOutcome(w) = "bad_json"))
      => req[w].result = Returned(None, "upstream")

C4_Witness ==
  \E w \in Workers :
    /\ DoneGet(w) /\ req[w].xport # <<>>
    /\ NetworkFailure(LastOutcome(w))
    /\ req[w].api = "APIError"
    /\ req[w].result = Returned(None, "upstream")

\* C5: once the upstream fetch succeeded and the entity was transformed,
\* get-by-key returns that entity even when the store upsert fails.
C5_UpsertFailureStillReturns ==
  \A w \in Workers :
    (DoneGet(w) /\ req[w].data # None)
      => (req[w].result.tag = "Return" /\ req[w].result.val = req[w].data)

\* C6: a failing cache read or write never surfaces: no call ends in an
\* exception raised by the cache; after a failed read the call goes to the
\* tier it goes to on a miss; after a failed write it returns what it was
\* about to cache.
C6_CacheFailureIsMiss ==
  \A w \in Workers :
    LET r == req[w]
        missTier == IF r.op = "get" \/ StoreTierEligible(registry, r.filter)
                    THEN "store_read" ELSE "upstream"
    IN
    /\ (r.result.tag = "Raise" => r.result.at \notin {"cache_check", "cache_set"})
    /\ (r.cache_read = "failed"
          => /\ r.trace[1] = "cache_get"
             /\ ~(r.result.tag = "Return" /\ r.result.src = "cache")
             /\ (Len(r.trace) >= 2 => r.trace[2] = missTier)
             /\ (Len(r.trace) = 1 => r.pc \in {"store_check", "s_store_check", "s_upstream"}))
    /\ (r.cache_write = "failed"
          => /\ Done(w) /\ r.result.tag = "Return"
             /\ (r.result.src = "upstream"
                   => r.result.val = (IF r.op = "get" THEN r.data ELSE List(r.results))))

C6_Witness ==
  \E w \in Workers :
    /\ Done(w) /\ req[w].op = "search"
    /\ req[w].cache_read = "failed" /\ req[w].cache_write = "failed"
    /\ req[w].results # <<>>
    /\ req[w].result = Returned(List(req[w].results), "upstream")

\* C7: an upstream client call whose every attempt met a network failure
\* made exactly the configured number of attempts and raised the typed error.
C7_RetryBound ==
  \A w \in Workers :
    (ClientEnded(w) /\ \A i \in 1..Len(req[w].xport) : NetworkFailure(req[w].xport[i]))
      => (Len(req[w].xport) = StopAfterAttempt /\ req[w].api = "APIError")

\* C8: no attempt follows a well-formed error response (HTTP error status,
\* not-found body): the call ends there with the typed error, so a call whose
\* first response is one makes exactly one attempt.
C8_ErrorResponseNotRetried ==
  \A w \in Workers :
    \A i \in 1..Len(req[w].xport) :
      WellFormedError(req[w].xport[i])
        => (i = Len(req[w].xport) /\ ClientEnded(w) /\ req[w].api = "APIError")

C8_Witness ==
  \E w \in Workers :
    /\ ClientEnded(w) /\ req[w].xport = <<"status0">>
    /\ req[w].api = "APIError"

\* C9: no request ever ends in a duplicate-key error of the store.
C9_NoDuplicateKeyError ==
  \A w \in Workers :
    Done(w) => ~(req[w].result.tag = "Raise" /\ req[w].result.exc = "IntegrityError")

\* C10: after two in-flight upserts of the same existing key have both
\* committed, the row's domain fields are those of one of the two payloads.
C10_NoInterleavedWrites ==
  \A v \in Workers : \A w \in Workers :
    (v # w /\ req[v].pc = "cache_set" /\ req[w].pc = "cache_set"
       /\ req[v].key = req[w].key /\ req[v].loaded # None /\ req[w].loaded # None)
      => \/ DomainFields(store[req[v].key]) = DomainFields(req[v].data)
         \/ DomainFields(store[req[v].key]) = DomainFields(req[w].data)

\* C11: upserting the same transformed entity a second time leaves the row
\* of its key with the field values it had after the first upsert
\* (updated_at and the timestamps aside).
C11_IdempotentUpsert ==
  fixture.stage = "entity" /\ fixture.upserts >= 2
    => MappedFields(store[fixture.key]) = MappedFields(fixture.first)

\* C12: transform, upsert, then get-by-key answered from the store while the
\* row is fresh returns an entity whose domain fields are those of the
\* transformed payload.
C12_RoundTrip ==
  fixture.stage = "read"
    => /\ fixture.readback.tag = "Return"
       /\ MappedFields(fixture.readback.val) = MappedFields(fixture.entity)

\* C13: the transformer raises for no payload, whichever non-key fields and
\* nested groups are missing or null.
C13_TransformerTotal ==
  fixture.stage # "transform_raised"

\* C14: with caching disabled no get-by-key or search call reads or writes
\* the cache, the cache stays empty, and every call starts at the tier it
\* starts at after a miss of an empty cache.
C14_CacheDisabled ==
  ~cache_enabled =>
    /\ \A c \in DOMAIN cache : cache[c] = None
    /\ \A w \in Workers :
         LET r == req[w]
             missTier == IF r.force THEN "upstream"
                         ELSE IF r.op = "get" \/ StoreTierEligible(registry, r.filter)
                         THEN "store_read" ELSE "upstream"
         IN r.op \in {"get", "search"} =>
              /\ ~HasCall(w, "cache_get") /\ ~HasCall(w, "cache_set")
              /\ r.cache_read \in {"none", "skipped"}
              /\ r.cache_write \in {"none", "skipped"}
              /\ ~(r.result.tag = "Return" /\ r.result.src = "cache")
              /\ (r.trace # <<>> => r.trace[1] = missTier)

C14_Witness ==
  /\ ~cache_enabled
  /\ \E w \in Workers :
       /\ Done(w) /\ req[w].op = "search" /\ ~req[w].force
       /\ req[w].cache_read = "skipped" /\ req[w].cache_write = "skipped"
       /\ req[w].results # <<>>
       /\ req[w].result = Returned(List(req[w].results), "upstream")

\* C15: a search that missed the cache, found no row in the store and got a
\* successful upstream response returns the list of the transformed upstream
\* results after one committed upsert per result.
C15_SearchFallback ==
  \A w \in Workers :
    LET r == req[w] IN
    (Done(w) /\ r.op = "search" /\ ~r.force /\ r.cache_read = "ok"
       /\ HasCall(w, "store_read") /\ r.api = "return")
      => /\ r.pending = <<>>
         /\ r.result.tag = "Return"
         /\ r.result.val = List(r.results)
         /\ Cardinality({i \in 1..Len(r.trace) : r.trace[i] = "upsert_commit"})
              = Len(r.results)

\* C16: a search or nearby search whose upstream call ended in the typed
\* upstream error returns the empty list; no exception leaves it.
C16_SearchDegrades ==
  \A w \in Workers :
    (Done(w) /\ req[w].op \in {"search", "nearby"} /\ req[w].api = "APIError")
      => req[w].result = Returned(List(<<>>), "upstream")

C16_Witness ==
  \E w \in Workers :
    /\ Done(w) /\ req[w].op = "search"
    /\ req[w].xport = <<"http_error">> /\ req[w].api = "APIError"
    /\ req[w].result = Returned(List(<<>>), "upstream")

\* C17: a search with a free-text term never queries the persistent store.
C17_FreeTextSkipsStore ==
  \A w \in Workers :
    (req[w].op = "search" /\ req[w].filter.text # 0) => ~HasCall(w, "store_read")

C20_NeverDeletes ==
  [][\A k \in Keys : store[k] # None => store'[k] # None]_vars

C20_Witness ==
  \E w \in Workers :
    /\ Done(w) /\ req[w].op = "nearby"
    /\ req[w].results # <<>>
    /\ req[w].loaded # None
    /\ \A i \in 1..Len(req[w].results) : store[req[w].results[i].key] # None

\* C21: in every reachable state every row of the table has
\* updated_at >= cached_at, after inserts, after updates and after
\* concurrent upserts of the same key.
C21_TimestampOrder ==
  \A k \in Keys : store[k] # None => store[k].updated_at >= store[k].cached_at

\* Two concurrent calls have both committed an upsert of the same key, and
\* the row they left was updated after it was cached.
C21_Witness ==
  \E v, w \in Workers :
    /\ v # w
    /\ req[v].op = "get" /\ req[w].op = "get" /\ req[v].key = req[w].key
    /\ HasCall(v, "upsert_commit") /\ HasCall(w, "upsert_commit")
    /\ req[v].pc \in {"cache_set", "done"} /\ req[w].pc = "cache_set"
    /\ req[v].result = None \/ req[v].result.tag = "Return"
    /\ store[req[w].key] # None
    /\ store[req[w].key].updated_at > store[req[w].key].cached_at

\* C22: after a successful upstream fetch and upsert for a key, on the insert
\* path or the update path of either registry, the row's cached_at is the
\* time of that fetch, so the row is not stale right after the refresh.
C22_CachedAtTracksFetch ==
  \A w \in Workers :
    (/\ DoneGet(w)
     /\ HasCall(w, "upsert_commit")
     /\ req[w].result.tag = "Return" /\ req[w].result.src = "upstream")
    => /\ store[req[w].key] # None
       /\ store[req[w].key].cached_at = req[w].data.cached_at
       /\ ~is_stale(store[req[w].key], now)

\* C23: every cache entry written by get-by-key carries the point-lookup TTL
\* of its registry and every entry written by search carries the search TTL,
\* whatever values the TTLs are configured with; no entry is written
\* without an expiry.
C23_TtlByOperation ==
  \A key \in CacheKeys(registry) :
    cache[key] # None
    => /\ cache[key].expires # NoExpiry
       /\ cache[key].ttl = IF key.op = "point" THEN PointTtl(registry)
                           ELSE settings.cache_ttl_search

\* C24: requests are not coalesced.  A get-by-key call that found the cache
\* and the store cold goes on to its own upstream call whatever other calls
\* for the same key are doing, and an answer that came from upstream was
\* fetched by the call that returns it; so two calls that start together on
\* a cold key both issue an upstream call.
C24_NoCoalescing ==
  \A w \in Workers :
    /\ (/\ req[w].op = "get"
        /\ req[w].trace # <<>>
        /\ req[w].trace[Len(req[w].trace)] = "store_read"
        /\ req[w].db_record = None
        /\ req[w].result = None)
       => req[w].pc = "upstream"
    /\ (/\ DoneGet(w)
        /\ req[w].result.tag = "Return"
        /\ req[w].result.src = "upstream")
       => HasCall(w, "upstream")

\* Two calls for the same key, both past a cold cache and a cold store, have
\* each had their own upstream call answered while the table still has no
\* row for the key.
C24_Witness ==
  \E v, w \in Workers :
    /\ v # w
    /\ req[v].op = "get" /\ req[w].op = "get" /\ req[v].key = req[w].key
    /\ ~req[v].force /\ ~req[w].force
    /\ HasCall(v, "store_read") /\ HasCall(w, "store_read")
    /\ HasCall(v, "upstream") /\ HasCall(w, "upstream")
    /\ req[v].pc = "save_read" /\ req[w].pc = "save_read"
    /\ store[req[w].key] = None

\* C25: requests handled by one process do not block each other.  While a
\* call is suspended in a cache, store or upstream round trip and the
\* clients have further requests to send, the process can start another
\* call.
C25_NonBlocking ==
  \A v \in Workers :
    (/\ req[v].pc \notin {"idle", "done"}
     /\ started < MaxCalls
     /\ \E w \in Workers : req[w].pc = "idle")
    => ENABLED (\E w \in Workers : Start(w) \/ StartSearch(w))

\* C26: the HTTP layer answers 404 when get-by-key ends absent (the registry
\* does not know the entity) and 502 when it ends failed (the upstream call
\* broke down), so a client can tell the two outcomes apart.
C26_OutcomeToStatus ==
  \A w \in Workers :
    (DoneGet(w) /\ ClientEnded(w) /\ req[w].api # "return")
    => /\ (LastOutcome(w) = "status0" => RouteStatus(req[w].result) = 404)
       /\ (NetworkFailure(LastOutcome(w)) => RouteStatus(req[w].result) = 502)

\* C27: a failure of the persistent store on the read path of get-by-key or
\* search, before any data has been obtained, makes the call fail: the error
\* reaches the caller (status 500 from the get-by-key route) and the call
\* neither goes on to upstream nor returns an absent or empty result.
C27_StoreReadFailureSurfaces ==
  \A w \in Workers :
    req[w].store_failed
    => /\ req[w].op \in {"get", "search"}
       /\ Done(w)
       /\ req[w].result = Raised("StoreError", "store_check")
       /\ ~HasCall(w, "upstream")
       /\ req[w].cache_write = "none"
       /\ (req[w].op = "get" => RouteStatus(req[w].result) = 500)

\* A search whose store query failed has ended with the store's error,
\* while the table holds rows that match its filter.
C27_Witness ==
  \E w \in Workers :
    /\ Done(w) /\ req[w].store_failed /\ req[w].op = "search"
    /\ req[w].result.tag = "Raise"
    /\ QueryResults(store, req[w].filter, req[w].limit) # {<<>>}

\* C28: two search calls get the same cache key exactly when they are on the
\* same registry and their parameter mappings (limit and absent values
\* included) are equal, in whatever order the parameters are supplied; a
\* point-lookup key is built from the natural key itself; no search key
\* equals a point-lookup key or a key of the other registry.
C28_KeyDerivation ==
  fixture.stage = "keyed"
  => /\ (fixture.first_key = fixture.second_key)
        <=> (/\ fixture.first.reg = fixture.second.reg
             /\ Mapping(fixture.first.kwargs) = Mapping(fixture.second.kwargs))
     /\ fixture.point_key[3] = [id |-> fixture.point.key]
     /\ fixture.first_key # fixture.point_key
     /\ fixture.second_key # fixture.point_key
     /\ fixture.first.reg # fixture.second.reg
        => fixture.first_key # fixture.second_key
     /\ fixture.first.reg # fixture.point.reg
        => fixture.first_key[1] # fixture.point_key[1]

\* The same parameters supplied in two different orders on one registry
\* have been given one key.
C28_Witness ==
  /\ fixture.stage = "keyed"
  /\ fixture.first.reg = fixture.second.reg
  /\ fixture.first.kwargs # fixture.second.kwargs
  /\ Mapping(fixture.first.kwargs) = Mapping(fixture.second.kwargs)
  /\ fixture.first_key = fixture.second_key

\* C29: once a search has written the cache entry of a filter set and
\* limit, a later search with the same filter set and limit and forceRefresh
\* false that reads the entry before it expires or is flushed returns the
\* cached list and makes no store query and no upstream call, whatever the
\* cached list is, an empty one included.
C29_SearchCacheHit ==
  \A w \in Workers :
    (/\ Done(w) /\ req[w].op = "search" /\ ~req[w].force
     /\ req[w].cache_held /\ req[w].cache_read = "ok")
    => /\ req[w].result = Returned(cache[KeyOf(req[w])].val, "cache")
       /\ req[w].trace = <<"cache_get">>

\* The lists a store-served search may return: the matching rows the query
\* gave, as to_dict renders them.
StoreLists(f, limit) ==
  {List([i \in 1..Len(rows) |-> to_dict(store[rows[i]])]) :
     rows \in QueryResults(store, f, limit) \ {<<>>}}

\* A search with forceRefresh false that missed the cache and whose store
\* query succeeded and found rows: the call has written no row since, so
\* the table is as the query saw it, and rows match the filter.
StoreServed(w) ==
  /\ req[w].op = "search" /\ ~req[w].force
  /\ req[w].cache_read = "ok" /\ ~req[w].cache_held
  /\ HasCall(w, "store_read") /\ ~req[w].store_failed
  /\ ~HasCall(w, "upsert_commit")
  /\ StoreLists(req[w].filter, req[w].limit) # {}

C31_NaturalKeyUnique ==
  \A k \in Keys : store[k] # None => store[k].copies = 1

\* Two concurrent calls have both tried to insert the same key: one
\* committed its row, the other was turned away by the unique index.
C31_Witness ==
  \E v, w \in Workers :
    /\ v # w
    /\ HasCall(v, "upsert_commit") /\ HasCall(w, "upsert_commit")
    /\ req[v].data.key = req[w].data.key
    /\ req[v].loaded = None /\ req[w].loaded = None
    /\ Done(w) /\ req[w].result = Raised("IntegrityError", "save")
    /\ store[req[w].data.key] # None
    /\ {req[v].op, req[w].op} \cap {"search", "nearby"} # {}

\* Position of an I/O call in the order cache read, store read, upstream
\* fetch, upsert, cache write.
Rank(call) ==
  CASE call = "cache_get" -> 1
    [] call = "store_read" -> 2
    [] call = "upstream" -> 3
    [] call = "upsert_read" -> 4
    [] call = "upsert_commit" -> 5
    [] call = "cache_set" -> 6
    [] OTHER -> 0

\* The calls of tr follow that order, each kind at most once and the
\* upstream attempts at most StopAfterAttempt times.
Ordered(tr) ==
  /\ \A i \in 1..Len(tr) : Rank(tr[i]) # 0
  /\ \A i, j \in 1..Len(tr) :
       i < j => \/ Rank(tr[i]) < Rank(tr[j])
                \/ tr[i] = "upstream" /\ tr[j] = "upstream"
  /\ Cardinality({i \in 1..Len(tr) : tr[i] = "upstream"}) <= StopAfterAttempt

\* C32: every get-by-key call ends, returning or raising, provided each of
\* its I/O calls returns or fails, and until then it makes at most one
\* cache read, one store read, one upstream fetch of at most the configured
\* number of attempts, one upsert and one cache write, in that order.
C32_BoundedOrdered ==
  /\ [](\A w \in Workers : req[w].op = "get" => Ordered(req[w].trace))
  /\ \A w \in Workers : (req[w].op = "get") ~> Done(w)

\* A get-by-key call has ended after going through every tier.
C32_Witness ==
  \E w \in Workers :
    /\ DoneGet(w)
    /\ req[w].trace = <<"cache_get", "store_read", "upstream",
                         "upsert_read", "upsert_commit", "cache_set">>

\* C33: a get-by-key or search whose upstream call fails, with the typed
\* upstream error or as not found, writes nothing: the step that ends the
\* call leaves every cache entry and every row as it was, and the call has
\* made no upsert and no cache write.
C33_NoEffectOnFailure ==
  /\ [](\A w \in Workers :
         req[w].api = "APIError"
         => /\ Done(w)
            /\ req[w].cache_write = "none"
            /\ ~HasCall(w, "upsert_commit") /\ ~HasCall(w, "cache_set"))
  /\ [][\A w \in Workers :
          (req[w].api # "APIError" /\ req'[w].api = "APIError")
          => cache' = cache /\ store' = store]_vars

\* A get-by-key whose key has a live cache entry and a row, refreshed by
\* force, has ended absent after a failed upstream call, and the entry and
\* the row are still there.
C33_Witness ==
  \E w \in Workers :
    /\ DoneGet(w) /\ req[w].force
    /\ req[w].api = "APIError"
    /\ req[w].result = Returned(None, "upstream")
    /\ Live(cache[KeyOf(req[w])], now)
    /\ store[req[w].key] # None

\* C34: in every reachable state, a point-lookup cache entry for a natural
\* key has a row for that key behind it in the table: the entry was written
\* from a store read or after the upsert committed.
C34_CacheBackedByStore ==
  \A k \in Keys :
    cache[PointKey(registry, k)] # None => store[k] # None

\* A get-by-key on a key without a row has inserted the row and then
\* written the cache entry.
C34_Witness ==
  \E w \in Workers :
    /\ DoneGet(w)
    /\ HasCall(w, "upsert_commit") /\ req[w].loaded = None
    /\ req[w].cache_write = "ok"
    /\ cache[PointKey(registry, req[w].key)] # None
    /\ store[req[w].key] # None

\* C35: every entity that get-by-key returns with forceRefresh false was
\* fetched from upstream no longer ago than the staleness threshold plus
\* the point-lookup TTL.
C35_BoundedStaleness ==
  \A w \in Workers :
    (/\ DoneGet(w) /\ ~req[w].force
     /\ req[w].result.tag = "Return" /\ req[w].result.val # None)
    => now - req[w].result.val.cached_at <= StaleHours + PointTtl(registry)

RECURSIVE SumCounts(_, _)
SumCounts(dist, rs) ==
  IF rs = {} THEN 0
  ELSE LET r == CHOOSE x \in rs : TRUE IN dist[r] + SumCounts(dist, rs \ {r})

\* C36: for every table content the reported average score is None exactly
\* when no matching row has a score that is not NULL (an average of 0 is
\* reported as 0), the distribution has no key with count zero, its counts
\* add up to at most the reported total, and the aggregation touches
\* neither the cache nor upstream and writes nothing.
C36_Statistics ==
  fixture.stage = "reported"
  => LET rep == fixture.report
         scored == {i \in 1..Len(fixture.table) :
                      fixture.table[i].match /\ fixture.table[i].score # {}}
     IN /\ (rep.average = None) <=> (scored = {})
        /\ \A r \in DOMAIN rep.distribution : rep.distribution[r] > 0
        /\ SumCounts(rep.distribution, DOMAIN rep.distribution) <= rep.total
        /\ cache = [c \in CacheKeys(registry) |-> None]
        /\ store = [k \in Keys |-> None]
        /\ \A w \in Workers : req[w] = IdleReq

====
